---------------------------- MODULE Spec2Model ----------------------------
(***************************************************************************)
(* State machine of the PMMRiskVolatilityTrend strategy                    *)
(* (src/pmm_risk_volatility_trend.py).                                     *)
(*                                                                         *)
(* Numbers.  Spreads and natr are integers in units of 1/BpsScale (natr =  *)
(* 50 stands for 0.005, bid_spread = 5000 for 0.5).  Prices, ratios and    *)
(* multipliers are exact rationals <<n, d>> in lowest terms with d > 0.    *)
(* The natr and rsi values the model draws are the ones for which the      *)
(* float products natr * scalar, 1 - bid_spread, 1 + ask_spread and        *)
(* Decimal(str(1 + price_multiplier)) are exact, so the rational equals    *)
(* the value the code computes; a Decimal quotient that does not terminate *)
(* (rounded by the code at 28 digits) is kept exact.                       *)
(***************************************************************************)
EXTENDS Integers, Sequences, FiniteSets, TLC

VARIABLES
    bid_spread,         \* self.bid_spread, in 1/BpsScale
    ask_spread,         \* self.ask_spread, in 1/BpsScale
    reference_price,    \* self.reference_price, a rational
    create_timestamp,   \* self.create_timestamp
    current_timestamp,  \* self.current_timestamp, set by the clock before on_tick
    active_orders,      \* get_active_orders(exchange): set of [side, placed_at]
    completed_at,       \* <<>> or <<T>>: the time the last cycle reached line 59
    last,               \* what the most recent call did (its trace)
    inputs              \* the collaborators' answers to a direct call (SpecQuote)

vars == <<bid_spread, ask_spread, reference_price, create_timestamp,
          current_timestamp, active_orders, completed_at, last, inputs>>

----------------------------------------------------------------------------
(* Bounds of the model *)

MaxJitter == 1
MaxNatr == 3
MaxBase == 1

(* Program constants (class attributes) *)

order_refresh_time == 15
bid_spread_scalar == 100
ask_spread_scalar == 50
max_shift_spread == 5
trend_scalar == 0 - 1
candles_length == 30
BpsScale == 10000

----------------------------------------------------------------------------
(* Rational arithmetic standing for Decimal *)

Abs(x) == IF x < 0 THEN 0 - x ELSE x

RECURSIVE GCD(_, _)
GCD(a, b) == IF b = 0 THEN a ELSE GCD(b, a % b)

Norm(n, d) ==
    LET s == IF d < 0 THEN 0 - 1 ELSE 1
        g == GCD(Abs(n), Abs(d))
    IN  <<(s * n) \div g, (s * d) \div g>>

R(x) == <<x, 1>>
RAdd(x, y) == Norm(x[1] * y[2] + y[1] * x[2], x[2] * y[2])
RSub(x, y) == Norm(x[1] * y[2] - y[1] * x[2], x[2] * y[2])
RMul(x, y) == Norm(x[1] * y[1], x[2] * y[2])
RLt(x, y) == x[1] * y[2] < y[1] * x[2]
RLe(x, y) == x[1] * y[2] <= y[1] * x[2]

\* Python's min(a, b) and max(a, b): a unless b is strictly smaller/larger.
RMin(a, b) == IF RLt(b, a) THEN b ELSE a
RMax(a, b) == IF RLt(a, b) THEN b ELSE a

inventory_skew_strength == <<1, 2>>
order_amount == <<1, 100>>

----------------------------------------------------------------------------
(* Inputs supplied by the collaborators *)

Sides == {"BUY", "SELL"}
SubmitResults == {"ok", "rejected", "raises"}
SampleCounts == {5, candles_length - 1, candles_length}

\* current_timestamp values: around start-up and around the refresh deadline
\* that follows a cycle completed at start-up.
TickTimes ==
    (0..MaxJitter) \cup {order_refresh_time + k : k \in (0 - 1)..MaxJitter}

\* What the collaborators answer during the ticks.
TickMarkets ==
    [natr : {0, 50}, rsi : {50}, raw_price : {0, 100},
     base : {1}, quote : {0, 100}]
TickBooks == [best_bid : {99, 101}, best_ask : {100}]

\* What they answer to a direct call of update_indicators, create_proposal.
NatrValues == {50 * k : k \in 0..MaxNatr}
RsiValues == {0, 25, 50, 75, 100}
QuoteMarkets ==
    [natr : NatrValues, rsi : RsiValues, raw_price : {0, 100},
     base : 0..MaxBase, quote : {0, 100, 300}]
QuoteBooks == [best_bid : {99, 100, 101}, best_ask : {100, 101}]

----------------------------------------------------------------------------
(* update_indicators, lines 61-82 *)

\* df.ta.natr / df.ta.rsi over candles_length rows followed by the column
\* lookups of lines 66-67: with fewer rows than the length the indicator
\* column is not there and the lookup raises before anything is assigned.
\* Mutant of SufficientData: only an empty window is refused.
SufficientDataNonEmpty(samples) == samples >= 1

SufficientData(samples) == samples >= candles_length

\* Mutant of AskSpread: the ask spread is capped at 0.5.
AskSpreadCapped(natr) ==
    IF natr * ask_spread_scalar > BpsScale \div 2
    THEN BpsScale \div 2 ELSE natr * ask_spread_scalar

BidSpread(natr) == natr * bid_spread_scalar
AskSpread(natr) == natr * ask_spread_scalar

\* Mutant of PriceMultiplier: rsi is not centred on 50.
PriceMultiplierUncentred(rsi) ==
    Norm(rsi * max_shift_spread * trend_scalar, 50 * BpsScale)

PriceMultiplier(rsi) ==
    Norm((rsi - 50) * max_shift_spread * trend_scalar, 50 * BpsScale)

ShiftedPrice(raw_price, rsi) ==
    RMul(R(raw_price), RAdd(R(1), PriceMultiplier(rsi)))

\* Mutant of InventoryRatio: an empty inventory counts as ratio 0.
InventoryRatioZeroDefault(base, quote, raw_price) ==
    LET total_value == base * raw_price + quote
    IN  IF total_value > 0 THEN Norm(base * raw_price, total_value) ELSE R(0)

InventoryRatio(base, quote, raw_price) ==
    LET total_value == base * raw_price + quote
    IN  IF total_value > 0 THEN Norm(base * raw_price, total_value) ELSE <<1, 2>>

\* Mutant of Skew: the sign of the skew is reversed.
SkewReversed(base, quote, raw_price) ==
    RMul(RSub(InventoryRatio(base, quote, raw_price), <<1, 2>>),
         inventory_skew_strength)

\* Mutant of Skew: the ratio is not centred on 0.5.
SkewUncentred(base, quote, raw_price) ==
    RMul(RSub(R(1), InventoryRatio(base, quote, raw_price)),
         inventory_skew_strength)

Skew(base, quote, raw_price) ==
    RMul(RSub(<<1, 2>>, InventoryRatio(base, quote, raw_price)),
         inventory_skew_strength)

\* Mutant of ReferencePrice: the skew is applied without the 1.0 added to it.
ReferencePriceSkewOnly(raw_price, rsi, base, quote) ==
    RMul(ShiftedPrice(raw_price, rsi), Skew(base, quote, raw_price))

ReferencePrice(raw_price, rsi, base, quote) ==
    RMul(ShiftedPrice(raw_price, rsi), RAdd(R(1), Skew(base, quote, raw_price)))

----------------------------------------------------------------------------
(* create_proposal, adjust_proposal_to_budget, place_orders *)

\* Mutant of BuyPrice: the price is not clamped against the best bid.
BuyPriceUnclamped(ref, bid, best_bid) ==
    RMul(ref, Norm(BpsScale - bid, BpsScale))

BuyPrice(ref, bid, best_bid) ==
    RMin(RMul(ref, Norm(BpsScale - bid, BpsScale)), R(best_bid))

\* Mutant of SellPrice: the price is not clamped against the best ask.
SellPriceUnclamped(ref, ask, best_ask) ==
    RMul(ref, Norm(BpsScale + ask, BpsScale))

SellPrice(ref, ask, best_ask) ==
    RMax(RMul(ref, Norm(BpsScale + ask, BpsScale)), R(best_ask))

\* Mutant of create_proposal: the Sell size grows with the ask spread.
create_proposal_sized_by_spread(ref, bid, ask, best_bid, best_ask) ==
    << [side |-> "BUY", amount |-> order_amount,
        price |-> BuyPrice(ref, bid, best_bid)],
       [side |-> "SELL",
        amount |-> RMul(order_amount, Norm(BpsScale + ask, BpsScale)),
        price |-> SellPrice(ref, ask, best_ask)] >>

create_proposal(ref, bid, ask, best_bid, best_ask) ==
    << [side |-> "BUY", amount |-> order_amount,
        price |-> BuyPrice(ref, bid, best_bid)],
       [side |-> "SELL", amount |-> order_amount,
        price |-> SellPrice(ref, ask, best_ask)] >>

\* budget_checker.adjust_candidates: the candidates it lets through, in order.
AdjustResults(proposal) ==
    {SelectSeq(proposal, LAMBDA c : c.side \in keep) : keep \in SUBSET Sides}

\* The loop of place_orders: buy() or sell() per order, in list order; a call
\* that raises ends the loop (and on_tick) there.  result[side] is what the
\* connector does with that side's submission.
FirstRaise(orders, result) ==
    LET bad == {i \in 1..Len(orders) : result[orders[i].side] = "raises"}
    IN  IF bad = {} THEN Len(orders) + 1
        ELSE CHOOSE i \in bad : \A j \in bad : i <= j

SubmitLoop(orders, result) ==
    LET k == FirstRaise(orders, result)
        n == IF k <= Len(orders) THEN k ELSE Len(orders)
    IN  [submitted |-> [i \in 1..n |-> orders[i].side],
         placed |-> {orders[i].side : i \in {j \in 1..n : result[orders[j].side] = "ok"}},
         error |-> IF k > Len(orders) THEN "none"
                   ELSE IF orders[k].side = "BUY" THEN "buy_error" ELSE "sell_error"]

\* Mutant of place_orders: an empty list of orders is treated as an error.
place_orders_refusing_empty(orders, result) ==
    IF orders = <<>>
    THEN [submitted |-> <<>>, placed |-> {}, error |-> "place_error"]
    ELSE SubmitLoop(orders, result)

place_orders(orders, result) == SubmitLoop(orders, result)

----------------------------------------------------------------------------
(* on_tick, lines 52-59 *)

\* Mutant of CycleDue: every tick runs a cycle.
CycleDueAlways(t) == TRUE

CycleDue(t) == t >= create_timestamp

NextCreateTimestamp(t) == t + order_refresh_time

IdleTrace ==
    [outcome |-> "idle", steps |-> <<>>, samples |-> 0, natr |-> 0,
     raw_price |-> 0, best_bid |-> 0, best_ask |-> 0, proposal |-> <<>>,
     adjusted |-> <<>>, submitted |-> <<>>, placed |-> {},
     price_multiplier |-> R(0), shifted_price |-> R(0),
     inventory_ratio |-> R(0), skew |-> R(0)]

NoInputs == [market |-> <<>>, book |-> <<>>]

Init ==
    /\ bid_spread = 1
    /\ ask_spread = 1
    /\ reference_price = R(1)
    /\ create_timestamp = 0
    /\ current_timestamp = 0
    /\ active_orders = {}
    /\ completed_at = <<>>
    /\ last = IdleTrace
    /\ inputs = NoInputs

\* The clock sets current_timestamp before it calls on_tick.
ClockAdvance(t) ==
    /\ t > current_timestamp
    /\ current_timestamp' = t
    /\ UNCHANGED <<bid_spread, ask_spread, reference_price, create_timestamp,
                   active_orders, completed_at, last, inputs>>

\* The trace of a cycle whose candle window has the given number of rows.
Started(samples) ==
    [IdleTrace EXCEPT !.steps = <<"cancel">>, !.samples = samples]

\* ... that assigned the spreads (lines 69-70),
Spread(samples, m) ==
    [Started(samples) EXCEPT !.steps = <<"cancel", "spreads">>, !.natr = m.natr]

\* ... read the mid price (line 72),
Priced(samples, m) ==
    [Spread(samples, m) EXCEPT !.steps = <<"cancel", "spreads", "price">>,
                               !.raw_price = m.raw_price]

\* ... assigned reference_price (line 82),
Updated(samples, m) ==
    [Priced(samples, m) EXCEPT
        !.steps = <<"cancel", "spreads", "price", "update">>,
        !.price_multiplier = PriceMultiplier(m.rsi),
        !.shifted_price = ShiftedPrice(m.raw_price, m.rsi),
        !.inventory_ratio = InventoryRatio(m.base, m.quote, m.raw_price),
        !.skew = Skew(m.base, m.quote, m.raw_price)]

\* ... and built the proposal (lines 96-106).
Proposed(tr, book, proposal) ==
    [tr EXCEPT !.steps = Append(tr.steps, "propose"),
               !.best_bid = book.best_bid, !.best_ask = book.best_ask,
               !.proposal = proposal]

\* The guard of line 53 is false: nothing runs.
OnTickIdle ==
    /\ ~CycleDue(current_timestamp)
    /\ last' = IdleTrace
    /\ UNCHANGED <<bid_spread, ask_spread, reference_price, create_timestamp,
                   current_timestamp, active_orders, completed_at, inputs>>

\* Line 66 raises: too few candles.
OnTickInsufficientData ==
    /\ CycleDue(current_timestamp)
    /\ \E samples \in SampleCounts :
          /\ ~SufficientData(samples)
          /\ last' = [Started(samples) EXCEPT !.outcome = "insufficient_data"]
    /\ active_orders' = {}
    /\ UNCHANGED <<bid_spread, ask_spread, reference_price, create_timestamp,
                   current_timestamp, completed_at, inputs>>

\* get_price_by_type raises at line 72: the spreads are already assigned.
OnTickPriceError ==
    /\ CycleDue(current_timestamp)
    /\ \E samples \in SampleCounts, m \in TickMarkets :
          /\ SufficientData(samples)
          /\ bid_spread' = BidSpread(m.natr)
          /\ ask_spread' = AskSpread(m.natr)
          /\ last' = [Spread(samples, m) EXCEPT !.outcome = "price_error"]
    /\ active_orders' = {}
    /\ UNCHANGED <<reference_price, create_timestamp, current_timestamp,
                   completed_at, inputs>>

\* get_balance raises at line 76 or 77.
OnTickBalanceError ==
    /\ CycleDue(current_timestamp)
    /\ \E samples \in SampleCounts, m \in TickMarkets :
          /\ SufficientData(samples)
          /\ bid_spread' = BidSpread(m.natr)
          /\ ask_spread' = AskSpread(m.natr)
          /\ last' = [Priced(samples, m) EXCEPT !.outcome = "balance_error"]
    /\ active_orders' = {}
    /\ UNCHANGED <<reference_price, create_timestamp, current_timestamp,
                   completed_at, inputs>>

\* update_indicators returns and get_price raises at line 96 or 97.
OnTickBookError ==
    /\ CycleDue(current_timestamp)
    /\ \E samples \in SampleCounts, m \in TickMarkets :
          /\ SufficientData(samples)
          /\ bid_spread' = BidSpread(m.natr)
          /\ ask_spread' = AskSpread(m.natr)
          /\ reference_price' = ReferencePrice(m.raw_price, m.rsi, m.base, m.quote)
          /\ last' = [Updated(samples, m) EXCEPT !.outcome = "book_error"]
    /\ active_orders' = {}
    /\ UNCHANGED <<create_timestamp, current_timestamp, completed_at, inputs>>

\* The proposal is built and adjust_candidates raises at line 109.
OnTickBudgetError ==
    /\ CycleDue(current_timestamp)
    /\ \E samples \in SampleCounts, m \in TickMarkets, book \in TickBooks :
          LET ref == ReferencePrice(m.raw_price, m.rsi, m.base, m.quote)
              proposal == create_proposal(ref, BidSpread(m.natr), AskSpread(m.natr),
                                          book.best_bid, book.best_ask)
          IN  /\ SufficientData(samples)
              /\ bid_spread' = BidSpread(m.natr)
              /\ ask_spread' = AskSpread(m.natr)
              /\ reference_price' = ref
              /\ last' = [Proposed(Updated(samples, m), book, proposal)
                             EXCEPT !.outcome = "budget_error"]
    /\ active_orders' = {}
    /\ UNCHANGED <<create_timestamp, current_timestamp, completed_at, inputs>>

\* The cycle reaches place_orders (line 58): it ends there when a submission
\* raises, and at line 59 otherwise.
OnTickPlace ==
    /\ CycleDue(current_timestamp)
    /\ \E samples \in SampleCounts, m \in TickMarkets, book \in TickBooks :
          LET ref == ReferencePrice(m.raw_price, m.rsi, m.base, m.quote)
              proposal == create_proposal(ref, BidSpread(m.natr), AskSpread(m.natr),
                                          book.best_bid, book.best_ask)
          IN  /\ SufficientData(samples)
              /\ bid_spread' = BidSpread(m.natr)
              /\ ask_spread' = AskSpread(m.natr)
              /\ reference_price' = ref
              /\ \E adjusted \in AdjustResults(proposal) :
                 \E po \in {place_orders(adjusted, r) : r \in [Sides -> SubmitResults]} :
                    LET tr == [Proposed(Updated(samples, m), book, proposal) EXCEPT
                                  !.steps = Append(@, "adjust"),
                                  !.adjusted = adjusted,
                                  !.submitted = po.submitted,
                                  !.placed = po.placed]
                    IN  /\ active_orders' =
                              {[side |-> s, placed_at |-> current_timestamp] :
                                  s \in po.placed}
                        /\ IF po.error = "none"
                           THEN /\ last' = [tr EXCEPT !.outcome = "done",
                                                      !.steps = Append(@, "place")]
                                /\ create_timestamp' =
                                      NextCreateTimestamp(current_timestamp)
                                /\ completed_at' = <<current_timestamp>>
                           ELSE /\ last' = [tr EXCEPT !.outcome = po.error]
                                /\ UNCHANGED <<create_timestamp, completed_at>>
    /\ UNCHANGED <<current_timestamp, inputs>>

\* An active order fills; did_fill_order only logs and notifies.
did_fill_order(order) ==
    /\ order \in active_orders
    /\ active_orders' = active_orders \ {order}
    /\ UNCHANGED <<bid_spread, ask_spread, reference_price, create_timestamp,
                   current_timestamp, completed_at, last, inputs>>

\* format_status reads the three parameters and the number of active orders.
format_status ==
    [reference_price |-> reference_price, bid_spread |-> bid_spread,
     ask_spread |-> ask_spread, active |-> Cardinality(active_orders)]

Next ==
    \/ \E t \in TickTimes : ClockAdvance(t)
    \/ OnTickIdle
    \/ OnTickInsufficientData
    \/ OnTickPriceError
    \/ OnTickBalanceError
    \/ OnTickBookError
    \/ OnTickBudgetError
    \/ OnTickPlace
    \/ \E order \in active_orders : did_fill_order(order)

Spec == Init /\ [][Next]_vars

----------------------------------------------------------------------------
(* update_indicators and create_proposal called directly, each once, on a  *)
(* freshly constructed strategy, with the collaborators' answers drawn at  *)
(* the start.                                                              *)

InitQuote ==
    /\ bid_spread = 1
    /\ ask_spread = 1
    /\ reference_price = R(1)
    /\ create_timestamp = 0
    /\ current_timestamp = 0
    /\ active_orders = {}
    /\ completed_at = <<>>
    /\ last = IdleTrace
    /\ inputs \in [market : QuoteMarkets, book : QuoteBooks]

update_indicators ==
    LET m == inputs.market
    IN  /\ last.steps = <<>>
        /\ bid_spread' = BidSpread(m.natr)
        /\ ask_spread' = AskSpread(m.natr)
        /\ reference_price' = ReferencePrice(m.raw_price, m.rsi, m.base, m.quote)
        /\ last' = [Updated(candles_length, m) EXCEPT !.outcome = "updated"]
        /\ UNCHANGED <<create_timestamp, current_timestamp, active_orders,
                       completed_at, inputs>>

CreateProposal ==
    /\ last.proposal = <<>>
    /\ last' = [Proposed(last, inputs.book,
                         create_proposal(reference_price, bid_spread, ask_spread,
                                         inputs.book.best_bid, inputs.book.best_ask))
                   EXCEPT !.outcome = "proposed"]
    /\ UNCHANGED <<bid_spread, ask_spread, reference_price, create_timestamp,
                   current_timestamp, active_orders, completed_at, inputs>>

NextQuote == update_indicators \/ CreateProposal

SpecQuote == InitQuote /\ [][NextQuote]_vars

----------------------------------------------------------------------------
(* Properties *)

Did(step) == \E i \in DOMAIN last.steps : last.steps[i] = step
DidNext(step) == \E i \in DOMAIN last'.steps : last'.steps[i] = step
InSeq(x, seq) == \E i \in DOMAIN seq : seq[i] = x
SidesOf(candidates) == {candidates[i].side : i \in DOMAIN candidates}
PriceOf(side) ==
    (CHOOSE c \in {last.proposal[i] : i \in DOMAIN last.proposal} : c.side = side).price
Positive(x) == RLt(R(0), x)

\* The step is an on_tick call that ran a cycle / that found the guard false.
CycleStep == last' # last /\ last'.steps # <<>>
IdleStep == last' # last /\ last'.steps = <<>>

\* C1: in every proposal built by create_proposal the Buy candidate's price
\* is at most best_bid and the Sell candidate's price is at least best_ask.
C1_QuotesClampedToBook ==
    Did("propose") =>
        /\ RLe(PriceOf("BUY"), R(last.best_bid))
        /\ RLe(R(last.best_ask), PriceOf("SELL"))

\* A proposal in which both clamps bind: the spread-adjusted reference lies
\* strictly inside the book.
C1_Witness ==
    /\ Did("propose")
    /\ RLt(R(last.best_bid),
           RMul(reference_price, Norm(BpsScale - bid_spread, BpsScale)))
    /\ RLt(RMul(reference_price, Norm(BpsScale + ask_spread, BpsScale)),
           R(last.best_ask))

\* C2: when the proposal has buy_price >= sell_price the tick is skipped:
\* no Buy or Sell order is submitted in that tick.
C2_InvertedQuotesSkipTick ==
    (Did("propose") /\ RLe(PriceOf("SELL"), PriceOf("BUY"))) =>
        /\ last.submitted = <<>>
        /\ last.placed = {}

\* The parameters one successful run of update_indicators publishes together.
Composed(m) ==
    [reference_price |-> ReferencePrice(m.raw_price, m.rsi, m.base, m.quote),
     bid_spread |-> BidSpread(m.natr), ask_spread |-> AskSpread(m.natr)]
Defaults == [reference_price |-> R(1), bid_spread |-> 1, ask_spread |-> 1]
StatusParameters ==
    [reference_price |-> format_status.reference_price,
     bid_spread |-> format_status.bid_spread,
     ask_spread |-> format_status.ask_spread]

\* C3: between ticks the parameters format_status reads are the construction
\* defaults or the three values of one successful composition, never a mix.
C3_StatusNeverHalfUpdated ==
    StatusParameters \in {Defaults} \cup {Composed(m) : m \in TickMarkets}

C5_NonPositiveMidPriceFails ==
    (Did("price") /\ last.raw_price <= 0) =>
        /\ ~Did("update")
        /\ Positive(reference_price)
        /\ last.submitted = <<>>

\* C6: a cycle runs only at a tick with current_timestamp >= create_timestamp
\* and never before order_refresh_time has passed since the last completed
\* cycle; a tick that starts no cycle changes no strategy state and no order.
C6_OneCyclePerRefresh ==
    [][/\ CycleStep =>
            /\ current_timestamp' >= create_timestamp
            /\ completed_at # <<>> =>
                  current_timestamp' >= completed_at[1] + order_refresh_time
       /\ IdleStep =>
            UNCHANGED <<bid_spread, ask_spread, reference_price,
                        create_timestamp, active_orders, completed_at>>]_vars

\* A tick one second before the refresh deadline of a completed cycle did
\* nothing, and the orders of that cycle are still active.
C6_Witness ==
    /\ last.outcome = "idle"
    /\ completed_at = <<0>>
    /\ current_timestamp = order_refresh_time - 1
    /\ Cardinality(active_orders) = 2

\* The cycle read a mid price and it was positive.
ValidMidPrice == Did("price") /\ last.raw_price > 0

\* C7: a cycle that fails at any stage places no quotes in that tick and is
\* due again at the next tick (here: whenever the mid price it read, if it
\* got that far, was valid).
C7_FailedCyclePlacesNothing ==
    (last.steps # <<>> /\ last.outcome # "done" /\ (Did("price") => ValidMidPrice)) =>
        /\ last.placed = {}
        /\ CycleDue(current_timestamp)

\* C8: when the submission of one side's order fails (is rejected or raises)
\* the other side's order of the adjusted proposal is still submitted (here:
\* in the cycles that read a valid mid price).
C8_OtherSideStillSubmitted ==
    \A s \in Sides, o \in Sides :
        (/\ s # o
         /\ ValidMidPrice
         /\ Did("adjust")
         /\ InSeq(s, last.submitted)
         /\ s \notin last.placed
         /\ o \in SidesOf(last.adjusted)) => InSeq(o, last.submitted)

\* C9: when the budget checker returns an empty list the tick submits nothing
\* and completes: create_timestamp becomes current_timestamp + order_refresh_time.
C9_EmptyBudgetCompletes ==
    [][(CycleStep /\ DidNext("adjust") /\ last'.adjusted = <<>>) =>
          /\ last'.outcome = "done"
          /\ last'.submitted = <<>>
          /\ active_orders' = {}
          /\ create_timestamp' = current_timestamp' + order_refresh_time]_vars

\* A completed cycle whose adjusted proposal was empty.
C9_Witness ==
    /\ Did("adjust")
    /\ last.adjusted = <<>>
    /\ last.outcome = "done"
    /\ completed_at = <<current_timestamp>>

\* C10 as stated: after a successful update_indicators on valid inputs
\* bid_spread > 0, ask_spread > 0 and reference_price > 0.
C10_AllStrictlyPositive ==
    (Did("update") /\ last.raw_price > 0) =>
        /\ bid_spread > 0
        /\ ask_spread > 0
        /\ Positive(reference_price)

\* C10 amended: after a successful update_indicators on valid inputs
\* reference_price > 0, and both spreads are > 0 when natr > 0 and 0 when
\* natr = 0.
C10_PositiveUnlessFlat ==
    (Did("update") /\ last.raw_price > 0) =>
        /\ Positive(reference_price)
        /\ last.natr > 0 => (bid_spread > 0 /\ ask_spread > 0)
        /\ last.natr = 0 => (bid_spread = 0 /\ ask_spread = 0)

\* An update on a volatile market whose inventory skew lowers the price.
C10_Witness ==
    /\ Did("update")
    /\ last.raw_price > 0
    /\ last.natr > 0
    /\ RLt(reference_price, ShiftedPrice(last.raw_price, inputs.market.rsi))

\* C11: a proposal built by create_proposal has exactly two candidates, one
\* Buy and one Sell, both with the fixed order_amount.
C11_TwoCandidatesFixedAmount ==
    Did("propose") =>
        /\ Len(last.proposal) = 2
        /\ SidesOf(last.proposal) = Sides
        /\ \A i \in DOMAIN last.proposal : last.proposal[i].amount = order_amount

\* A proposal built after an update with non-zero spreads and a skewed price.
C11_Witness ==
    /\ Did("update")
    /\ Did("propose")
    /\ ask_spread > 0
    /\ last.skew # R(0)

RAbs(x) == <<Abs(x[1]), x[2]>>

\* C12: for every rsi in [0, 100] the price_multiplier that update_indicators
\* computes has magnitude at most max_shift_spread.
C12_ShiftBounded ==
    Did("update") =>
        RLe(RAbs(last.price_multiplier), Norm(max_shift_spread, BpsScale))

\* An update at the extreme rsi = 100: the shift is exactly -max_shift_spread.
C12_Witness ==
    /\ Did("update")
    /\ inputs.market.rsi = 100
    /\ last.price_multiplier = Norm(0 - max_shift_spread, BpsScale)

\* total_value of line 78 for the inputs of the direct call.
TotalValue == inputs.market.base * inputs.market.raw_price + inputs.market.quote

\* C13: the inventory_ratio of update_indicators is in [0, 1] when
\* total_value > 0, and is exactly 0.5 (skew 0) when total_value is not > 0.
C13_InventoryRatioRange ==
    Did("update") =>
        /\ TotalValue > 0 =>
              /\ RLe(R(0), last.inventory_ratio)
              /\ RLe(last.inventory_ratio, R(1))
        /\ ~(TotalValue > 0) =>
              /\ last.inventory_ratio = <<1, 2>>
              /\ last.skew = R(0)

\* An update with an inventory that is neither empty, one-sided nor balanced.
C13_Witness ==
    /\ Did("update")
    /\ TotalValue > 0
    /\ RLt(R(0), last.inventory_ratio)
    /\ RLt(last.inventory_ratio, <<1, 2>>)

\* An update with an empty inventory.
C13_EmptyInventoryReached ==
    /\ Did("update")
    /\ TotalValue = 0
    /\ last.inventory_ratio = <<1, 2>>

\* C14: with a positive shifted_price, an inventory_ratio below 0.5 gives
\* skew > 0 and reference_price > shifted_price (skew = 0.5 *
\* inventory_skew_strength when base is 0 and quote > 0), and a ratio above
\* 0.5 gives skew < 0 and reference_price < shifted_price.
C14_SkewDirection ==
    (Did("update") /\ Positive(last.shifted_price)) =>
        /\ RLt(last.inventory_ratio, <<1, 2>>) =>
              /\ Positive(last.skew)
              /\ RLt(last.shifted_price, reference_price)
        /\ RLt(<<1, 2>>, last.inventory_ratio) =>
              /\ RLt(last.skew, R(0))
              /\ RLt(reference_price, last.shifted_price)
        /\ (inputs.market.base = 0 /\ inputs.market.quote > 0) =>
              last.skew = RMul(<<1, 2>>, inventory_skew_strength)

\* An update with base 0 and quote > 0 at a positive price.
C14_Witness ==
    /\ Did("update")
    /\ Positive(last.shifted_price)
    /\ inputs.market.base = 0
    /\ inputs.market.quote > 0
    /\ RLt(last.shifted_price, reference_price)

\* An update with a base-heavy inventory at a positive price.
C14_BaseHeavyReached ==
    /\ Did("update")
    /\ Positive(last.shifted_price)
    /\ RLt(<<1, 2>>, last.inventory_ratio)

\* C15: when inventory_ratio is 0.5 the skew is 0 and the published
\* reference_price equals shifted_price.
C15_BalancedInventoryNoSkew ==
    (Did("update") /\ last.inventory_ratio = <<1, 2>>) =>
        /\ last.skew = R(0)
        /\ reference_price = last.shifted_price

\* An update with base value equal to quote value and a shifted price.
C15_Witness ==
    /\ Did("update")
    /\ TotalValue > 0
    /\ last.inventory_ratio = <<1, 2>>
    /\ last.shifted_price # R(inputs.market.raw_price)

C17_FailedCycleLeavesNoQuotes ==
    [][(CycleStep /\ (DidNext("price") => last'.raw_price > 0)) =>
          /\ last'.steps[1] = "cancel"
          /\ \A o \in active_orders' : o.placed_at = current_timestamp'
          /\ \A o, q \in active_orders' : o.side = q.side => o = q
          /\ last'.outcome # "done" => active_orders' = {}]_vars

\* The part of C17 that every cycle keeps, failed or not: the orders live
\* after a cycle are those this cycle placed, and no older one.
C17_OnlyThisCyclesOrders ==
    [][CycleStep =>
          /\ last'.steps[1] = "cancel"
          /\ active_orders' =
                {[side |-> s, placed_at |-> current_timestamp'] : s \in last'.placed}]_vars

\* A failed cycle later than the first one, after which a Buy order is live.
C17_FailedCycleWithLiveOrder ==
    /\ last.steps # <<>>
    /\ last.outcome # "done"
    /\ current_timestamp > 0
    /\ \E o \in active_orders : o.side = "BUY" /\ o.placed_at = current_timestamp

\* C18: every candidate of a proposal built from a positive reference_price,
\* best_bid and best_ask has a strictly positive price, whatever natr >= 0
\* the spreads were computed from.
C18_CandidatePricesPositive ==
    (/\ Did("propose")
     /\ Positive(reference_price)
     /\ last.best_bid > 0
     /\ last.best_ask > 0) =>
        /\ Positive(PriceOf("BUY"))
        /\ Positive(PriceOf("SELL"))

\* A proposal built after an update with natr * bid_spread_scalar >= 1 and a
\* positive reference_price.
C18_WideSpreadReached ==
    /\ Did("update")
    /\ Did("propose")
    /\ bid_spread >= BpsScale
    /\ Positive(reference_price)

\* C19: in every proposal built against a book with best_bid < best_ask the
\* Buy price is strictly below the Sell price; a proposal with
\* buy_price >= sell_price has best_bid >= best_ask.
C19_UncrossedBookUncrossedQuotes ==
    Did("propose") =>
        /\ last.best_bid < last.best_ask => RLt(PriceOf("BUY"), PriceOf("SELL"))
        /\ RLe(PriceOf("SELL"), PriceOf("BUY")) => last.best_bid >= last.best_ask

\* A proposal against an uncrossed book with both spreads 0 and the
\* reference_price at or below best_bid: only the Sell clamp separates the
\* two prices.
C19_Witness ==
    /\ Did("update")
    /\ Did("propose")
    /\ last.best_bid < last.best_ask
    /\ bid_spread = 0
    /\ ask_spread = 0
    /\ Positive(reference_price)
    /\ RLe(reference_price, R(last.best_bid))

\* An inverted pair does arise, against a crossed book.
C19_InvertedReached ==
    /\ Did("propose")
    /\ RLe(PriceOf("SELL"), PriceOf("BUY"))
    /\ last.best_bid >= last.best_ask

============================================================================
